---- MODULE Spec2Model ----
(***************************************************************************)
(* PAlpine: the retrieval-augmented question pipeline of rag_system.py     *)
(* (get_smart_rag_chain), its two entry points (rag_system.main, the CLI,  *)
(* and app.py, the Streamlit chat), and the ingestion script               *)
(* build_database.py.                                                      *)
(*                                                                         *)
(* A Python string that the code takes apart (the model's expansion reply, *)
(* an expanded query) is a sequence of one-character strings; a string the *)
(* code only passes on (a question, an answer, a chunk text) is a TLA+     *)
(* string.                                                                 *)
(***************************************************************************)
EXTENDS Integers, Sequences, FiniteSets, TLC

\* ------------------------------------------------------------- bounds
\* Questions asked in one session of the query interface.
MaxQuestions == 2
\* Chunks one index lookup returns at most (RETRIEVER_K_VALUE is 10 in the
\* source; the model scales it down).
MaxHits == 1
\* Characters of the expansion reply in the retriever specification.
MaxOutLen == 4
\* Documents in one JSONL source file.
MaxDocs == 2
\* Runs of build_database.main one after the other.
MaxRuns == 2
\* Chunks in a list given to format_docs on its own.
MaxFormatDocs == 3
\* Runs of main_downloader one after the other.
MaxDownloadRuns == 2

\* ------------------------------------------------ configuration (source)
PERSIST_DIRECTORY == "db"
PERSIST_DIRECTORY_LAWS == "db_laws"
PERSIST_DIRECTORY_JUDGMENTS == "db_judgments"
LAWS_FILE == "laws.jsonl"
JUDGMENTS_FILE == "judgments.jsonl"

\* The sentence rule 2 of final_response_template asks the model to answer with.
FALLBACK_SENTENCE ==
    "Ich konnte in den vorliegenden Dokumenten (Urteile und Gesetze) keine Informationen zu dieser Frage finden."

\* ------------------------------------------------------------ strings
NL == "\n"
Chars == {"q", " ", NL}
\* What str.strip() removes at both ends.
Whitespace == {" ", NL, "\t", "\r"}

StringsUpTo(n) == UNION {[1..k -> Chars] : k \in 0..n}

\* str.split("\n"): the pieces between the line breaks, empty pieces kept;
\* a string without a line break is its own single piece.
RECURSIVE SplitLines(_)
SplitLines(s) ==
    IF \E i \in 1..Len(s) : s[i] = NL
    THEN LET i == CHOOSE k \in 1..Len(s) :
                     s[k] = NL /\ \A j \in 1..(k-1) : s[j] # NL
         IN <<SubSeq(s, 1, i-1)>> \o SplitLines(SubSeq(s, i+1, Len(s)))
    ELSE <<s>>

\* str.strip(): the string without its leading and trailing whitespace.
Strip(s) ==
    LET keep == {i \in 1..Len(s) : s[i] \notin Whitespace}
    IN IF keep = {} THEN <<>>
       ELSE LET lo == CHOOSE i \in keep : \A j \in keep : i <= j
                hi == CHOOSE i \in keep : \A j \in keep : j <= i
            IN SubSeq(s, lo, hi)

\* ------------------------------------------------------------- chunks
\* A langchain Document: page_content and a metadata dict, here a set of
\* <<key, value>> pairs.
Doc(text, meta) == [page_content |-> text, metadata |-> meta]
\* The chunks of the index the query interface opens. Two of them carry the
\* same text under different source files.
IndexDocs ==
    << Doc("t1", {<<"source", "A.pdf">>}),
       Doc("t1", {<<"source", "B.pdf">>}),
       Doc("t2", {<<"source", "A.pdf">>}) >>

\* dict.get(key, default)
MetaGet(meta, key, default) ==
    IF \E p \in meta : p[1] = key
    THEN (CHOOSE p \in meta : p[1] = key)[2]
    ELSE default

\* What retriever.invoke can return from an index holding `chunks`: up to k
\* of its chunks, nearest first, none of them twice.
Hits(chunks) ==
    {h \in UNION {[1..k -> 1..Len(chunks)] : k \in 0..MaxHits} :
        \A i, j \in 1..Len(h) : i # j => h[i] # h[j]}
HitDocs(chunks, h) == [i \in 1..Len(h) |-> chunks[h[i]]]

\* Mutant of DedupByContent: keeps the first chunk of each text.
RECURSIVE DedupKeepFirst(_)
DedupKeepFirst(docs) ==
    IF docs = <<>> THEN <<>>
    ELSE LET rest == DedupKeepFirst(SubSeq(docs, 1, Len(docs) - 1))
             d == docs[Len(docs)]
         IN IF \E i \in 1..Len(rest) : rest[i].page_content = d.page_content
            THEN rest
            ELSE Append(rest, d)

\* Mutant of DedupByContent: no deduplication.
DedupNone(docs) == docs

\* list({doc.page_content: doc for doc in all_docs}.values()): a Python dict
\* keeps a key at the place of its first insertion and the value of its last
\* assignment.
RECURSIVE DedupByContent(_)
DedupByContent(docs) ==
    IF docs = <<>> THEN <<>>
    ELSE LET rest == DedupByContent(SubSeq(docs, 1, Len(docs) - 1))
             d == docs[Len(docs)]
         IN IF \E i \in 1..Len(rest) : rest[i].page_content = d.page_content
            THEN [i \in 1..Len(rest) |->
                     IF rest[i].page_content = d.page_content THEN d ELSE rest[i]]
            ELSE Append(rest, d)

\* ------------------------------------------------------- format_docs
\* sorted() on the source names that occur: Python compares strings by code
\* point, so "A.pdf" < "B.pdf" < "Unbekannt".
SourceRank(s) ==
    CASE s = "A.pdf" -> 1
      [] s = "B.pdf" -> 2
      [] s = "Unbekannt" -> 3
      [] OTHER -> 4

SourceOf(d) == MetaGet(d.metadata, "source", "Unbekannt")

RECURSIVE SortedSources(_)
SortedSources(S) ==
    IF S = {} THEN <<>>
    ELSE LET m == CHOOSE x \in S : \A y \in S : SourceRank(x) <= SourceRank(y)
         IN <<m>> \o SortedSources(S \ {m})

\* Mutant of TextsOf: the texts of all chunks, whatever their source.
TextsOfAll(docs, src) == [i \in 1..Len(docs) |-> docs[i].page_content]

\* The chunk texts of one source, in the order of docs.
RECURSIVE TextsOf(_, _)
TextsOf(docs, src) ==
    IF docs = <<>> THEN <<>>
    ELSE LET d == docs[1]
             rest == TextsOf(Tail(docs), src)
         IN IF SourceOf(d) = src THEN <<d.page_content>> \o rest ELSE rest

\* "\n...\n".join(texts), as the sequence of its pieces.
RECURSIVE JoinTexts(_)
JoinTexts(texts) ==
    IF texts = <<>> THEN <<>>
    ELSE IF Len(texts) = 1 THEN <<texts[1]>>
    ELSE <<texts[1], "\n...\n">> \o JoinTexts(Tail(texts))

RECURSIVE FormatGroups(_, _)
FormatGroups(srcs, docs) ==
    IF srcs = <<>> THEN <<>>
    ELSE <<"\n--- Quelle: ", srcs[1], " ---\n">>
             \o JoinTexts(TextsOf(docs, srcs[1]))
             \o FormatGroups(Tail(srcs), docs)

\* Mutant of format_docs: the sources are taken in the order in which the
\* chunks bring them, without sorted().
RECURSIVE SourcesInOrder(_)
SourcesInOrder(docs) ==
    IF docs = <<>> THEN <<>>
    ELSE LET rest == SourcesInOrder(SubSeq(docs, 1, Len(docs) - 1))
             src == SourceOf(docs[Len(docs)])
         IN IF \E i \in 1..Len(rest) : rest[i] = src THEN rest ELSE Append(rest, src)
format_docs_unsorted(docs) == FormatGroups(SourcesInOrder(docs), docs)

\* format_docs: the context string, as the sequence of the pieces that are
\* concatenated; the empty sequence is the empty string.
format_docs(docs) ==
    FormatGroups(SortedSources({SourceOf(docs[i]) : i \in 1..Len(docs)}), docs)

\* ------------------------------------------------------------- inputs
Questions == {"X", "Y"}
\* Replies of the generative model to the expansion prompt in a session: no
\* text, one query, the queries "q", "", "q", a blank line before a padded
\* query, and two different queries.
ExpansionReplies ==
    { <<>>,
      <<"q">>,
      <<"q", NL, NL, "q">>,
      <<" ", NL, "q", " ">>,
      <<"q", NL, "q", "q">> }
\* Replies of the generative model to the final prompt.
SynthReplies == {FALLBACK_SENTENCE, "Antwort (Quelle: A.pdf)"}
Frontends == {"cli", "app"}
\* The index directories on disk when the query interface starts: none, the
\* one the query interface reads, the two build_database.py writes.
StartDirs ==
    { {},
      {PERSIST_DIRECTORY},
      {PERSIST_DIRECTORY_LAWS, PERSIST_DIRECTORY_JUDGMENTS} }

AllDirs == {PERSIST_DIRECTORY, PERSIST_DIRECTORY_LAWS, PERSIST_DIRECTORY_JUDGMENTS}
SourceFiles == {LAWS_FILE, JUDGMENTS_FILE}
\* A source file that is missing or that JSONLoader cannot load.
Unloadable == [ok |-> FALSE, docs |-> <<>>]

NoPrompt == [template |-> "none", context |-> <<>>, question |-> ""]
NoOutcome == [kind |-> "none", text |-> ""]
NoStore == "none"

\* -------------------------------------------------------------- state
VARIABLES
    frontend,      \* "cli": rag_system.main, "app": app.py
    dirs,          \* the index directories that exist on disk
    vectorstore,   \* the directory the open Chroma store reads, or NoStore
    pc,            \* "start" | "prompt" | "invoke" | "exit" | "crashed"
    startupError,  \* the errors shown at start-up
    stages,        \* the stage of each question asked so far
    question,      \* the question being processed
    prompt,        \* the prompt last sent to the generative model
    queries,       \* the expanded queries (the split expansion reply)
    qi,            \* the loop position of retrieve_docs_for_queries
    all_docs,      \* the chunks accumulated by the loop
    lookups,       \* the queries retriever.invoke was called with, in order
    context,       \* format_docs' result
    reply,         \* the text the generative model returned last
    unique_docs,   \* the deduplicated chunks retrieve_docs_for_queries returns
    trace,         \* the model calls and index lookups of the question, in order
    outcome,       \* what the caller got for the question: answer or error
    messages,      \* st.session_state.messages (app.py)
    store,         \* the chunks each index directory holds
    files,         \* each JSONL source file: loadable or not, and its documents
    ipc,           \* build_database.main's position, "off" when it is not run
    documents,     \* the documents build_database.main loaded last
    ilog,          \* what build_database logged in its current run, in order
    runs,          \* the runs of build_database.main started so far
    lastCounts,    \* the chunks each directory held when the last run began
    disk,          \* downloader: what the download folder holds of each file
    dpc,           \* downloader: where main_downloader stands
    di,            \* downloader: the place in urls_to_download the loop is at
    success_count, \* downloader: the links download_pdf returned True for
    fail_count,    \* downloader: the links download_pdf returned False for
    last,          \* downloader: what download_pdf did for the last link
    broken,        \* downloader: files whose last download failed or was cut
    druns          \* downloader: the runs of main_downloader started so far

vars == <<frontend, dirs, vectorstore, pc, startupError, stages, question,
          prompt, queries, qi, all_docs, lookups, context, reply, unique_docs,
          trace, outcome, messages, store, files, ipc, documents, ilog, runs,
          lastCounts, disk, dpc, di, success_count, fail_count, last, broken,
          druns>>

download == <<disk, dpc, di, success_count, fail_count, last, broken, druns>>

ingest == <<files, ipc, documents, ilog, runs, lastCounts>>
env == <<frontend, dirs, store, ingest, download>>
perQuestion == <<question, prompt, queries, qi, all_docs, lookups, context,
                 reply, unique_docs, trace, outcome>>
session == <<frontend, vectorstore, pc, startupError, stages, perQuestion,
             messages, download>>
\* All that the downloader leaves alone.
notDownload == <<frontend, dirs, store, ingest, vectorstore, pc, startupError,
                 stages, perQuestion, messages>>

\* ---------------------------------------------------------- downloader
\* The lines of pdf_links.txt; a link is given by the segments of its path.
LinkFile == << <<"PDF", "a.pdf">>, <<"PDF", "b.pdf">>, <<"PDF", "c.pdf">> >>
\* unquote(os.path.basename(parsed_url.path))
FileName(url) == url[Len(url)]
DownloadFiles == {FileName(LinkFile[i]) : i \in 1..Len(LinkFile)}
NoDownload == [file |-> "", kind |-> "none"]
\* The downloader has not been started and its folder is empty.
DownloadOff ==
    /\ disk = [f \in DownloadFiles |-> "absent"]
    /\ dpc = "off"
    /\ di = 1
    /\ success_count = 0
    /\ fail_count = 0
    /\ last = NoDownload
    /\ broken = {}
    /\ druns = 0

CurStage == IF stages = <<>> THEN "none" ELSE stages[Len(stages)]
SetStage(s) == [stages EXCEPT ![Len(stages)] = s]

\* ------------------------------------------------------------ prompts
\* final_response_prompt: the template (which states the fallback rule) with
\* {context} and {question} filled in.
FinalPrompt(c, q) ==
    [template |-> "final_response", context |-> c, question |-> q]

\* Mutant of ExpansionPrompt: the template is filled with the first question
\* of the stored chat history, where there is one.
ExpansionPromptFromHistory(q) ==
    [template |-> "query_expansion", context |-> <<>>,
     question |-> IF messages # <<>> THEN messages[1].content[2] ELSE q]

\* query_expansion_prompt: the template with {question} filled in.
ExpansionPrompt(q) ==
    [template |-> "query_expansion", context |-> <<>>, question |-> q]

\* Mutant of LlmCall: the model is invoked a second time.
LlmCallRetried(template) ==
    <<[kind |-> "llm", of |-> template], [kind |-> "llm", of |-> template]>>
\* "| llm" in a chain: one invocation of the generative model with the
\* prompt of the template before it.
LlmCall(template) == <<[kind |-> "llm", of |-> template]>>
\* retriever.invoke(query): one lookup in the index.
IndexCall == <<[kind |-> "lookup", of |-> "index"]>>

\* Mutant of Answer: the fallback sentence is enforced on an empty context.
AnswerEnforced(c, text) == IF c = <<>> THEN FALLBACK_SENTENCE ELSE text
\* final_response_prompt | llm | StrOutputParser(): the Answer is the text of
\* the model's reply; the context plays no part in it.
Answer(c, text) == text

\* Mutant of ShouldLookup: the query is not trimmed before the test.
ShouldLookupNoStrip(query) == query # <<>>
\* if query.strip():
ShouldLookup(query) == Strip(query) # <<>>

\* Mutant of IndexPresent: the directory is not checked.
IndexPresentUnchecked == TRUE
\* os.path.exists(PERSIST_DIRECTORY)
IndexPresent == PERSIST_DIRECTORY \in dirs

\* Mutant of Advance: the expansion feeds the final prompt directly.
AdvanceSkipRetrieval(stage) ==
    CASE stage = "Received" -> "Expanding"
      [] stage = "Expanding" -> "Synthesizing"
      [] stage = "Retrieving" -> "Synthesizing"
      [] stage = "Synthesizing" -> "Completed"
      [] OTHER -> stage
\* The order in which rag_chain composes its steps: expansion prompt | llm |
\* split, retrieve_docs_for_queries | format_docs, final prompt | llm | parser.
Advance(stage) ==
    CASE stage = "Received" -> "Expanding"
      [] stage = "Expanding" -> "Retrieving"
      [] stage = "Retrieving" -> "Synthesizing"
      [] stage = "Synthesizing" -> "Completed"
      [] OTHER -> stage

\* -------------------------------------------------------------- Init
Init ==
    /\ frontend \in Frontends
    /\ dirs \in StartDirs
    /\ vectorstore = NoStore
    /\ pc = "start"
    /\ startupError = {}
    /\ stages = <<>>
    /\ question = ""
    /\ prompt = NoPrompt
    /\ queries = <<>>
    /\ qi = 1
    /\ all_docs = <<>>
    /\ lookups = <<>>
    /\ context = <<>>
    /\ reply = ""
    /\ unique_docs = <<>>
    /\ trace = <<>>
    /\ outcome = NoOutcome
    /\ messages = <<>>
    /\ store = [d \in AllDirs |-> IF d \in dirs THEN IndexDocs ELSE <<>>]
    /\ files = [f \in SourceFiles |-> Unloadable]
    /\ ipc = "off"
    /\ documents = <<>>
    /\ ilog = <<>>
    /\ runs = 0
    /\ lastCounts = [d \in AllDirs |-> Len(store[d])]
    /\ DownloadOff

\* ----------------------------------------------------------- start-up
\* rag_system.main up to the question loop; app.py's get_cached_rag_chain.
\* The index directory is checked, the store opened, the model pinged.
Startup ==
    /\ pc = "start"
    /\ \E llmUp \in BOOLEAN :
         IF ~IndexPresent
         THEN \* cli: the error is printed and main returns. app: st.error,
              \* load_vectorstore returns None, load_llm is still called
              \* (and shows its own error if the model is down), then
              \* st.stop() ends the script.
              /\ startupError' = {"index_missing"} \cup
                     (IF frontend = "app" /\ ~llmUp THEN {"llm_unreachable"} ELSE {})
              /\ pc' = "exit"
              /\ vectorstore' = NoStore
         ELSE IF ~llmUp
         THEN /\ startupError' = {"llm_unreachable"}
              /\ pc' = "exit"
              /\ vectorstore' = PERSIST_DIRECTORY
         ELSE /\ startupError' = {}
              /\ pc' = "prompt"
              /\ vectorstore' = PERSIST_DIRECTORY
    /\ UNCHANGED <<env, stages, perQuestion, messages>>

\* ------------------------------------------------------- the question
\* input() returned a question (cli), st.chat_input returned one (app): the
\* question is shown and stored, and rag_chain.invoke is entered.
Ask ==
    /\ pc = "prompt"
    /\ Len(stages) < MaxQuestions
    /\ \E q \in Questions :
         /\ question' = q
         /\ messages' = IF frontend = "app"
                        THEN Append(messages, [role |-> "user", content |-> <<"", q>>])
                        ELSE messages
    /\ stages' = Append(stages, "Received")
    /\ pc' = "invoke"
    /\ prompt' = NoPrompt
    /\ queries' = <<>>
    /\ qi' = 1
    /\ all_docs' = <<>>
    /\ lookups' = <<>>
    /\ context' = <<>>
    /\ reply' = ""
    /\ unique_docs' = <<>>
    /\ trace' = <<>>
    /\ outcome' = NoOutcome
    /\ UNCHANGED <<env, vectorstore, startupError>>

\* cli: an empty input line is skipped (continue).
CliEmptyInput ==
    /\ pc = "prompt"
    /\ frontend = "cli"
    /\ UNCHANGED vars

\* cli: "exit", or Ctrl-C at the prompt, ends the loop.
CliExit ==
    /\ pc = "prompt"
    /\ frontend = "cli"
    /\ pc' = "exit"
    /\ UNCHANGED <<env, vectorstore, startupError, stages, perQuestion, messages>>

\* An exception leaves rag_chain.invoke. app.py catches it, shows and stores
\* the error message and goes on; rag_system.main catches only
\* KeyboardInterrupt, so the exception ends the process with a traceback.
Raise(cause) ==
    /\ stages' = SetStage("Failed")
    /\ outcome' = [kind |-> "error", text |-> cause]
    /\ IF frontend = "app"
       THEN /\ pc' = "prompt"
            /\ messages' = Append(messages,
                   [role |-> "assistant",
                    content |-> <<"Ein Fehler ist bei der Abfrage aufgetreten: ", cause>>])
       ELSE /\ pc' = "crashed"
            /\ messages' = messages

\* The expansion prompt is built from the question and sent to the model.
Expand ==
    /\ pc = "invoke"
    /\ CurStage = "Received"
    /\ prompt' = ExpansionPrompt(question)
    /\ trace' = trace \o LlmCall(prompt'.template)
    /\ stages' = SetStage(Advance(CurStage))
    /\ UNCHANGED <<env, vectorstore, pc, startupError, question, queries, qi,
                   all_docs, lookups, context, reply, unique_docs, outcome, messages>>

\* The model replies; the reply is split into lines.
ExpandReturn ==
    /\ pc = "invoke"
    /\ CurStage = "Expanding"
    /\ \E r \in ExpansionReplies :
         /\ queries' = SplitLines(r)
         /\ reply' = r
    /\ qi' = 1
    /\ all_docs' = <<>>
    /\ stages' = SetStage(Advance(CurStage))
    /\ UNCHANGED <<env, trace, vectorstore, pc, startupError, question, prompt,
                   lookups, context, unique_docs, outcome, messages>>

\* The model call of the expansion raises.
ExpandFails ==
    /\ pc = "invoke"
    /\ CurStage = "Expanding"
    /\ Raise("OllamaError")
    /\ UNCHANGED <<env, trace, vectorstore, startupError, question, prompt, queries,
                   qi, all_docs, lookups, context, reply, unique_docs>>

\* One pass of "for query in queries" over a query that is empty after
\* trimming: no lookup.
SkipEmpty ==
    /\ pc = "invoke"
    /\ CurStage = "Retrieving"
    /\ qi <= Len(queries)
    /\ ~ShouldLookup(queries[qi])
    /\ qi' = qi + 1
    /\ UNCHANGED <<env, trace, vectorstore, pc, startupError, stages, question, prompt,
                   queries, all_docs, lookups, context, reply, unique_docs, outcome, messages>>

\* One pass over a non-empty query: all_docs.extend(retriever.invoke(query)).
Lookup ==
    /\ pc = "invoke"
    /\ CurStage = "Retrieving"
    /\ qi <= Len(queries)
    /\ ShouldLookup(queries[qi])
    /\ lookups' = Append(lookups, queries[qi])
    /\ trace' = trace \o IndexCall
    /\ \E h \in Hits(store[vectorstore]) :
         all_docs' = all_docs \o HitDocs(store[vectorstore], h)
    /\ qi' = qi + 1
    /\ UNCHANGED <<env, vectorstore, pc, startupError, stages, question, prompt,
                   queries, context, reply, unique_docs, outcome, messages>>

\* retriever.invoke raises: nothing in retrieve_docs_for_queries catches it,
\* so the exception leaves the chain.
LookupFails ==
    /\ pc = "invoke"
    /\ CurStage = "Retrieving"
    /\ qi <= Len(queries)
    /\ ShouldLookup(queries[qi])
    /\ lookups' = Append(lookups, queries[qi])
    /\ trace' = trace \o IndexCall
    /\ Raise("ChromaError")
    /\ UNCHANGED <<env, vectorstore, startupError, question, prompt, queries,
                   qi, all_docs, context, reply, unique_docs>>

\* The loop is over: the chunks are deduplicated, format_docs builds the
\* context, the final prompt is built and sent to the model.
FinishRetrieve ==
    /\ pc = "invoke"
    /\ CurStage = "Retrieving"
    /\ qi > Len(queries)
    /\ unique_docs' = DedupByContent(all_docs)
    /\ context' = format_docs(unique_docs')
    /\ prompt' = FinalPrompt(context', question)
    /\ trace' = trace \o LlmCall(prompt'.template)
    /\ stages' = SetStage(Advance(CurStage))
    /\ UNCHANGED <<env, vectorstore, pc, startupError, question, queries, qi,
                   all_docs, lookups, reply, outcome, messages>>

\* The model replies to the final prompt; the caller gets the text.
SynthReturn ==
    /\ pc = "invoke"
    /\ CurStage = "Synthesizing"
    /\ \E r \in SynthReplies :
         /\ reply' = r
         /\ outcome' = [kind |-> "answer", text |-> Answer(context, r)]
         /\ messages' = IF frontend = "app"
                        THEN Append(messages,
                                 [role |-> "assistant",
                                  content |-> <<"", Answer(context, r)>>])
                        ELSE messages
    /\ stages' = SetStage(Advance(CurStage))
    /\ pc' = "prompt"
    /\ UNCHANGED <<env, trace, vectorstore, startupError, question, prompt, queries,
                   qi, all_docs, lookups, context, unique_docs>>

\* The model call of the synthesis raises.
SynthFails ==
    /\ pc = "invoke"
    /\ CurStage = "Synthesizing"
    /\ Raise("OllamaError")
    /\ UNCHANGED <<env, trace, vectorstore, startupError, question, prompt, queries,
                   qi, all_docs, lookups, context, reply, unique_docs>>

Pipeline ==
    \/ Expand
    \/ ExpandReturn
    \/ ExpandFails
    \/ SkipEmpty
    \/ Lookup
    \/ LookupFails
    \/ FinishRetrieve
    \/ SynthReturn
    \/ SynthFails

Next ==
    \/ Startup
    \/ Ask
    \/ CliEmptyInput
    \/ CliExit
    \/ Pipeline

Spec == Init /\ [][Next]_vars

\* Every call of the pipeline returns or raises.
FairSpec == Spec /\ WF_vars(Pipeline)

\* ------------------------------------------- the retriever on its own
\* retrieve_docs_for_queries entered with the split of any reply of up to
\* MaxOutLen characters.
RetrieverInit ==
    /\ frontend \in Frontends
    /\ dirs = {PERSIST_DIRECTORY}
    /\ vectorstore = PERSIST_DIRECTORY
    /\ pc = "invoke"
    /\ startupError = {}
    /\ stages = <<"Retrieving">>
    /\ question = "X"
    /\ prompt = ExpansionPrompt(question)
    /\ reply \in StringsUpTo(MaxOutLen)
    /\ queries = SplitLines(reply)
    /\ qi = 1
    /\ all_docs = <<>>
    /\ lookups = <<>>
    /\ context = <<>>
    /\ unique_docs = <<>>
    /\ trace = LlmCall("query_expansion")
    /\ outcome = NoOutcome
    /\ messages = IF frontend = "app"
                  THEN <<[role |-> "user", content |-> <<"", question>>]>>
                  ELSE <<>>
    /\ \E content \in {<<>>, IndexDocs} :
          store = [d \in AllDirs |-> IF d \in dirs THEN content ELSE <<>>]
    /\ files = [f \in SourceFiles |-> Unloadable]
    /\ ipc = "off"
    /\ documents = <<>>
    /\ ilog = <<>>
    /\ runs = 0
    /\ lastCounts = [d \in AllDirs |-> Len(store[d])]
    /\ DownloadOff

RetrieverNext ==
    \/ SkipEmpty
    \/ Lookup
    \/ LookupFails
    \/ FinishRetrieve

RetrieverSpec == RetrieverInit /\ [][RetrieverNext]_vars

\* ---------------------------------------------------------- ingestion
\* The documents a JSONL source file may hold: JSONLoader's Documents, the
\* metadata set by metadata_func. The second one is blank.
FileDocs(f) ==
    LET src == IF f = LAWS_FILE THEN "LAW_A.pdf" ELSE "J_1.pdf"
    IN { Doc("text", {<<"source", src>>, <<"case_number", "N/A">>}),
         Doc(" ", {<<"source", src>>, <<"case_number", "N/A">>}) }
FileContents(f) ==
    {Unloadable} \cup
    {[ok |-> TRUE, docs |-> d] : d \in UNION {[1..k -> FileDocs(f)] : k \in 0..MaxDocs}}
\* What an index directory left by an earlier run holds.
StaleChunks == <<Doc("old", {<<"source", "OLD.pdf">>, <<"case_number", "N/A">>})>>

FileOf(corpus) == IF corpus = "laws" THEN LAWS_FILE ELSE JUDGMENTS_FILE
DirOf(corpus) ==
    IF corpus = "laws" THEN PERSIST_DIRECTORY_LAWS ELSE PERSIST_DIRECTORY_JUDGMENTS

\* load_documents_from_jsonl: the documents of the file; an exception of the
\* loader is logged as an error and the empty list returned.
LoadedDocuments(f) == IF files[f].ok THEN files[f].docs ELSE <<>>

\* split_documents for documents shorter than CHUNK_SIZE: the splitter gives
\* one chunk per document, the document's metadata kept, and none for a
\* document that is blank (the text " " stands for the blank ones).
RECURSIVE split_documents(_)
split_documents(docs) ==
    IF docs = <<>> THEN <<>>
    ELSE (IF Strip(<<docs[1].page_content>>) = <<>> THEN <<>> ELSE <<docs[1]>>)
             \o split_documents(Tail(docs))

IngestInit ==
    /\ frontend = "cli"
    /\ dirs \in SUBSET {PERSIST_DIRECTORY_LAWS, PERSIST_DIRECTORY_JUDGMENTS}
    /\ store = [d \in AllDirs |-> IF d \in dirs THEN StaleChunks ELSE <<>>]
    /\ files \in [SourceFiles -> UNION {FileContents(f) : f \in SourceFiles}]
    /\ \A f \in SourceFiles : files[f] \in FileContents(f)
    /\ ipc = "load_laws"
    /\ documents = <<>>
    /\ ilog = <<>>
    /\ runs = 1
    /\ lastCounts = [d \in AllDirs |-> Len(store[d])]
    /\ DownloadOff
    /\ vectorstore = NoStore
    /\ pc = "start"
    /\ startupError = {}
    /\ stages = <<>>
    /\ question = ""
    /\ prompt = NoPrompt
    /\ queries = <<>>
    /\ qi = 1
    /\ all_docs = <<>>
    /\ lookups = <<>>
    /\ context = <<>>
    /\ reply = ""
    /\ unique_docs = <<>>
    /\ trace = <<>>
    /\ outcome = NoOutcome
    /\ messages = <<>>

\* main: laws = load_documents_from_jsonl(LAWS_FILE), and the same for the
\* judgments.
LoadDocuments(corpus) ==
    /\ ipc = "load_" \o corpus
    /\ documents' = LoadedDocuments(FileOf(corpus))
    /\ ilog' = IF files[FileOf(corpus)].ok
               THEN Append(ilog, <<"info", "loaded", FileOf(corpus)>>)
               ELSE Append(ilog, <<"error", "load", FileOf(corpus)>>)
    /\ ipc' = "build_" \o corpus
    /\ UNCHANGED <<session, dirs, store, files, runs, lastCounts>>

\* Mutant of create_vector_db: the existing directory is not removed, so
\* Chroma.from_documents adds the chunks to the collection it finds there.
create_vector_db_upsert(docs, dir) ==
    LET chunks == split_documents(docs)
    IN IF chunks = <<>>
       THEN /\ ilog' = Append(ilog, <<"error", "no chunks", dir>>)
            /\ UNCHANGED <<dirs, store>>
       ELSE /\ ilog' = Append(ilog, <<"info", "stored", dir>>)
            /\ dirs' = dirs \cup {dir}
            /\ store' = [store EXCEPT ![dir] = store[dir] \o chunks]

\* create_vector_db: the directory is removed if it exists, the documents
\* are split and, unless there is no chunk (an error is logged and it
\* returns), Chroma.from_documents writes the chunks to a new store there.
create_vector_db(docs, dir) ==
    LET chunks == split_documents(docs)
    IN IF chunks = <<>>
       THEN /\ ilog' = Append(ilog, <<"error", "no chunks", dir>>)
            /\ dirs' = dirs \ {dir}
            /\ store' = [store EXCEPT ![dir] = <<>>]
       ELSE /\ ilog' = Append(ilog, <<"info", "stored", dir>>)
            /\ dirs' = dirs \cup {dir}
            /\ store' = [store EXCEPT ![dir] = chunks]

\* main: "if laws: create_vector_db(...) else: warning", and the same for
\* the judgments.
BuildCorpus(corpus) ==
    /\ ipc = "build_" \o corpus
    /\ IF documents = <<>>
       THEN /\ ilog' = Append(ilog, <<"warning", "skip", DirOf(corpus)>>)
            /\ UNCHANGED <<dirs, store>>
       ELSE create_vector_db(documents, DirOf(corpus))
    /\ ipc' = IF corpus = "laws" THEN "load_judgments" ELSE "finish"
    /\ UNCHANGED <<session, files, documents, runs, lastCounts>>

\* main's last line: the success message.
FinishIngestion ==
    /\ ipc = "finish"
    /\ ilog' = Append(ilog, <<"info", "success", "ingestion">>)
    /\ ipc' = "done"
    /\ UNCHANGED <<session, dirs, store, files, documents, runs, lastCounts>>

\* build_database.py is run again, on the same source files.
RunAgain ==
    /\ ipc = "done"
    /\ pc = "start"
    /\ runs < MaxRuns
    /\ runs' = runs + 1
    /\ lastCounts' = [d \in AllDirs |-> Len(store[d])]
    /\ ipc' = "load_laws"
    /\ documents' = <<>>
    /\ ilog' = <<>>
    /\ UNCHANGED <<session, dirs, store, files>>

\* The query interface is started after build_database.py has finished.
StartupAfterIngestion ==
    /\ ipc = "done"
    /\ Startup

IngestNext ==
    \/ LoadDocuments("laws")
    \/ BuildCorpus("laws")
    \/ LoadDocuments("judgments")
    \/ BuildCorpus("judgments")
    \/ FinishIngestion
    \/ RunAgain
    \/ StartupAfterIngestion

IngestSpec == IngestInit /\ [][IngestNext]_vars

\* ------------------------------------------------ format_docs on its own
\* The lists retrieve_docs_for_queries can hand to format_docs: chunks of
\* pairwise different text (the values of a dict keyed by the text), each
\* from source A.pdf or B.pdf or without a "source" entry in its metadata.
FormatTexts == {"t1", "t2", "t3"}
FormatMetas ==
    {{<<"source", "A.pdf">>}, {<<"source", "B.pdf">>}, {<<"case_number", "N/A">>}}
FormatChunks == {Doc(t, m) : t \in FormatTexts, m \in FormatMetas}
FormatInputs ==
    {docs \in UNION {[1..n -> FormatChunks] : n \in 0..MaxFormatDocs} :
        \A i, j \in 1..Len(docs) :
            i # j => docs[i].page_content # docs[j].page_content}

FormatInit ==
    /\ frontend = "cli"
    /\ dirs = {PERSIST_DIRECTORY}
    /\ vectorstore = PERSIST_DIRECTORY
    /\ pc = "format"
    /\ startupError = {}
    /\ stages = <<"Retrieving">>
    /\ question = "X"
    /\ prompt = ExpansionPrompt(question)
    /\ reply = ""
    /\ queries = <<>>
    /\ qi = 1
    /\ all_docs = <<>>
    /\ lookups = <<>>
    /\ context = <<>>
    /\ unique_docs \in FormatInputs
    /\ trace = <<>>
    /\ outcome = NoOutcome
    /\ messages = <<>>
    /\ store = [d \in AllDirs |-> <<>>]
    /\ files = [f \in SourceFiles |-> Unloadable]
    /\ ipc = "off"
    /\ documents = <<>>
    /\ ilog = <<>>
    /\ runs = 0
    /\ lastCounts = [d \in AllDirs |-> 0]
    /\ DownloadOff

\* format_docs is applied to the list.
FormatDocs ==
    /\ pc = "format"
    /\ context' = format_docs(unique_docs)
    /\ pc' = "formatted"
    /\ UNCHANGED <<env, vectorstore, startupError, stages, question, prompt,
                   queries, qi, all_docs, lookups, reply, unique_docs, trace,
                   outcome, messages>>

FormatNext == FormatDocs

FormatSpec == FormatInit /\ [][FormatNext]_vars

\* ------------------------------------------------- downloader, its runs
\* main_downloader has read the link file and is at the head of its loop; the
\* folder holds nothing, or files an earlier run has downloaded completely.
DownloadInit ==
    /\ frontend = "cli"
    /\ dirs = {}
    /\ vectorstore = NoStore
    /\ pc = "start"
    /\ startupError = {}
    /\ stages = <<>>
    /\ question = ""
    /\ prompt = NoPrompt
    /\ queries = <<>>
    /\ qi = 1
    /\ all_docs = <<>>
    /\ lookups = <<>>
    /\ context = <<>>
    /\ reply = ""
    /\ unique_docs = <<>>
    /\ trace = <<>>
    /\ outcome = NoOutcome
    /\ messages = <<>>
    /\ store = [d \in AllDirs |-> <<>>]
    /\ files = [f \in SourceFiles |-> Unloadable]
    /\ ipc = "off"
    /\ documents = <<>>
    /\ ilog = <<>>
    /\ runs = 0
    /\ lastCounts = [d \in AllDirs |-> 0]
    /\ disk \in [DownloadFiles -> {"absent", "complete"}]
    /\ dpc = "loop"
    /\ di = 1
    /\ success_count = 0
    /\ fail_count = 0
    /\ last = NoDownload
    /\ broken = {}
    /\ druns = 1

\* The file of the link the loop is at.
CurFile == FileName(LinkFile[di])
\* The loop of main_downloader is at a link.
AtLink == dpc = "loop" /\ di <= Len(LinkFile)

\* os.path.exists(file_path)
FileExists(f) == disk[f] # "absent"

\* download_pdf: the file exists, the link is skipped and counts as success.
SkipExisting ==
    /\ AtLink
    /\ FileExists(CurFile)
    /\ last' = [file |-> CurFile, kind |-> "skipped"]
    /\ success_count' = success_count + 1
    /\ di' = di + 1
    /\ UNCHANGED <<notDownload, disk, dpc, fail_count, broken, druns>>

\* download_pdf: session.get or raise_for_status raises a RequestException
\* before the file is opened; False is returned.
GetFails ==
    /\ AtLink
    /\ ~FileExists(CurFile)
    /\ last' = [file |-> CurFile, kind |-> "failed"]
    /\ broken' = broken \cup {CurFile}
    /\ fail_count' = fail_count + 1
    /\ di' = di + 1
    /\ UNCHANGED <<notDownload, disk, dpc, success_count, druns>>

\* download_pdf: the file is opened and every chunk of the response is
\* written; True is returned.
DownloadComplete ==
    /\ AtLink
    /\ ~FileExists(CurFile)
    /\ disk' = [disk EXCEPT ![CurFile] = "complete"]
    /\ last' = [file |-> CurFile, kind |-> "downloaded"]
    /\ broken' = broken \ {CurFile}
    /\ success_count' = success_count + 1
    /\ di' = di + 1
    /\ UNCHANGED <<notDownload, dpc, fail_count, druns>>

\* download_pdf: the file is opened with 'wb' and iter_content raises a
\* RequestException while the chunks are written; the file stays as far as
\* it was written and False is returned.
StreamBreaks ==
    /\ AtLink
    /\ ~FileExists(CurFile)
    /\ disk' = [disk EXCEPT ![CurFile] = "partial"]
    /\ last' = [file |-> CurFile, kind |-> "failed"]
    /\ broken' = broken \cup {CurFile}
    /\ fail_count' = fail_count + 1
    /\ di' = di + 1
    /\ UNCHANGED <<notDownload, dpc, success_count, druns>>

\* The run is interrupted (Ctrl-C, which no except clause catches) while the
\* chunks are written: the file stays as far as it was written and the
\* process ends without its summary.
Interrupted ==
    /\ AtLink
    /\ ~FileExists(CurFile)
    /\ disk' = [disk EXCEPT ![CurFile] = "partial"]
    /\ last' = [file |-> CurFile, kind |-> "interrupted"]
    /\ broken' = broken \cup {CurFile}
    /\ dpc' = "killed"
    /\ UNCHANGED <<notDownload, di, success_count, fail_count, druns>>

\* The loop is over: the summary with both counts is printed.
Summary ==
    /\ dpc = "loop"
    /\ di > Len(LinkFile)
    /\ dpc' = "done"
    /\ UNCHANGED <<notDownload, disk, di, success_count, fail_count, last,
                   broken, druns>>

\* main_downloader is run again over the same link file.
RunDownloader ==
    /\ dpc \in {"done", "killed"}
    /\ druns < MaxDownloadRuns
    /\ druns' = druns + 1
    /\ dpc' = "loop"
    /\ di' = 1
    /\ success_count' = 0
    /\ fail_count' = 0
    /\ last' = NoDownload
    /\ UNCHANGED <<notDownload, disk, broken>>

DownloadNext ==
    \/ SkipExisting
    \/ GetFails
    \/ DownloadComplete
    \/ StreamBreaks
    \/ Interrupted
    \/ Summary
    \/ RunDownloader

DownloadSpec == DownloadInit /\ [][DownloadNext]_vars

\* ============================================================== claims
Range(f) == {f[i] : i \in DOMAIN f}
\* retrieve_docs_for_queries has returned for the current question.
Retrieved == prompt.template = "final_response"
\* An index lookup of the current question has raised.
LookupRaised == outcome = [kind |-> "error", text |-> "ChromaError"]
\* A model call of the current question has raised.
ModelRaised == outcome = [kind |-> "error", text |-> "OllamaError"]
\* A query with a character that is not whitespace.
NonBlank(q) == \E i \in 1..Len(q) : q[i] \notin {" ", "\n", "\t", "\r"}
RECURSIVE NonBlankOnly(_)
NonBlankOnly(qs) ==
    IF qs = <<>> THEN <<>>
    ELSE (IF NonBlank(qs[1]) THEN <<qs[1]>> ELSE <<>>) \o NonBlankOnly(Tail(qs))
FirstIndex(docs, text) ==
    CHOOSE i \in 1..Len(docs) :
        docs[i].page_content = text /\ \A j \in 1..(i-1) : docs[j].page_content # text
LastIndex(docs, text) ==
    CHOOSE i \in 1..Len(docs) :
        docs[i].page_content = text
        /\ \A j \in (i+1)..Len(docs) : docs[j].page_content # text

\* C1 (as claimed): a failed index lookup is tolerated: the question whose
\* lookup raised does not fail, it goes on with the remaining queries and to
\* synthesis. The code has no handler around retriever.invoke, so this is
\* violated.
C1_PartialFailureTolerated == LookupRaised => CurStage # "Failed"

\* C2 (as claimed): of the chunks with one text, the retriever returns the
\* one that came first in expansion order, with its metadata. Violated: the
\* dict comprehension keeps the last value assigned to a key.
C2_KeepsFirstOccurrence ==
    Retrieved =>
        \A i \in 1..Len(unique_docs) :
            unique_docs[i] = all_docs[FirstIndex(all_docs, unique_docs[i].page_content)]

\* C2 (amended): of the chunks with one text, the retriever returns the one
\* that came last in expansion order, with its metadata, and returns it at
\* the place the text's first occurrence gives it: the returned chunks are
\* ordered by the first occurrence of their texts.
C2_KeepsLastOccurrence ==
    Retrieved =>
        /\ \A i \in 1..Len(unique_docs) :
              unique_docs[i] = all_docs[LastIndex(all_docs, unique_docs[i].page_content)]
        /\ \A i, j \in 1..Len(unique_docs) :
              i < j => FirstIndex(all_docs, unique_docs[i].page_content)
                           < FirstIndex(all_docs, unique_docs[j].page_content)

\* C2 witness: the same text was returned twice, by two lookups, with
\* different metadata.
C2_Witness ==
    /\ Retrieved
    /\ Len(lookups) >= 2
    /\ \E i, j \in 1..Len(all_docs) :
          /\ i < j
          /\ all_docs[i].page_content = all_docs[j].page_content
          /\ all_docs[i].metadata # all_docs[j].metadata

\* C3: the list retrieve_docs_for_queries returns holds no text twice, and
\* every text some lookup returned exactly once.
C3_DedupInvariant ==
    Retrieved =>
        /\ \A i, j \in 1..Len(unique_docs) :
              unique_docs[i].page_content = unique_docs[j].page_content => i = j
        /\ \A k \in 1..Len(all_docs) :
              Cardinality({i \in 1..Len(unique_docs) :
                  unique_docs[i].page_content = all_docs[k].page_content}) = 1
        /\ \A i \in 1..Len(unique_docs) : unique_docs[i] \in Range(all_docs)

\* C3 witness: the lookups returned a text more than once.
C3_Witness == Retrieved /\ Len(unique_docs) < Len(all_docs)

\* C4: the lookups issued so far are exactly the queries passed so far that
\* are not blank, each once and in expansion order; when the retriever has
\* returned they are all the non-blank queries. (A lookup that raises is
\* issued for queries[qi]; the others have moved qi on.)
C4_LookupsAreNonBlankQueries ==
    /\ lookups = NonBlankOnly(SubSeq(queries, 1, IF LookupRaised THEN qi ELSE qi - 1))
    /\ Retrieved => lookups = NonBlankOnly(queries)

\* C4 witness: the expansion "q", "", "q": two lookups, for the first and the
\* third query.
C4_Witness ==
    /\ Retrieved
    /\ queries = << <<"q">>, <<>>, <<"q">> >>
    /\ lookups = << <<"q">>, <<"q">> >>

\* C5 (as claimed): with zero chunks retrieved, the Answer is the fallback
\* sentence whatever the model replies. Violated: the Answer is the reply.
C5_EmptyContextGivesFallback ==
    (CurStage = "Completed" /\ unique_docs = <<>>)
        => outcome.text = FALLBACK_SENTENCE

\* C5 (amended): with zero chunks retrieved, the final prompt carries an
\* empty context and the question, and the Answer is the model's reply to it,
\* unmodified; it is the fallback sentence exactly when the model replies
\* with it.
C5_EmptyContextGivesReply ==
    (CurStage = "Completed" /\ unique_docs = <<>>)
        => /\ prompt = [template |-> "final_response", context |-> <<>>,
                        question |-> question]
           /\ outcome = [kind |-> "answer", text |-> reply]

\* C5 witness: lookups were issued, none returned a chunk, and the question
\* completed.
C5_Witness ==
    /\ CurStage = "Completed"
    /\ lookups # <<>>
    /\ unique_docs = <<>>
    /\ outcome.text = FALLBACK_SENTENCE

\* The indices a retrieval pipeline of the current question ran against.
IndexesRetrieved == IF vectorstore = NoStore THEN {} ELSE {vectorstore}

\* C6 (as claimed): when synthesis starts, one retrieval pipeline has run
\* against the statutes index and one against the judgments index. Violated:
\* the chain has one retriever, on the store opened at PERSIST_DIRECTORY.
C6_DualCorpusRetrieval ==
    CurStage = "Synthesizing"
        => {PERSIST_DIRECTORY_LAWS, PERSIST_DIRECTORY_JUDGMENTS} \subseteq IndexesRetrieved

StageOrderEdges ==
    { <<"Received", "Expanding">>, <<"Expanding", "Retrieving">>,
      <<"Retrieving", "Synthesizing">>, <<"Synthesizing", "Completed">> }
    \cup {<<st, "Failed">> : st \in {"Received", "Expanding", "Retrieving", "Synthesizing"}}
TerminalStages == {"Completed", "Failed"}

C8_MissingIndexIsFatal ==
    (pc # "start" /\ PERSIST_DIRECTORY \notin dirs)
        => /\ "index_missing" \in startupError
           /\ pc = "exit"
           /\ vectorstore = NoStore
           /\ stages = <<>>
           /\ lookups = <<>>
           /\ outcome = NoOutcome
           /\ messages = <<>>

\* C8 witness: start-up ended on the missing directory while the directories
\* build_database.py writes exist.
C8_Witness ==
    /\ pc = "exit"
    /\ "index_missing" \in startupError
    /\ PERSIST_DIRECTORY_LAWS \in dirs
    /\ PERSIST_DIRECTORY_JUDGMENTS \in dirs

\* C9 (as claimed): when a source file cannot be loaded, build_database.main
\* does not end as a successful ingestion. Violated: the loader's exception is
\* turned into an empty list, the corpus is skipped with a warning, its old
\* directory is left as it is, and main logs success.
C9_MissingSourceIsFatal ==
    (\E f \in SourceFiles : ~files[f].ok)
        => <<"info", "success", "ingestion">> \notin Range(ilog)

\* C10 (as claimed): after a model call raised for a question, the caller has
\* the error and the query interface takes the next question. Violated by
\* rag_system.main, whose loop catches KeyboardInterrupt only.
C10_ModelFailureIsPerQuestion ==
    (CurStage = "Failed" /\ ModelRaised) => pc = "prompt"

\* The corpus whose create-or-skip step main has just passed.
JustBuilt ==
    IF ipc = "load_judgments" THEN {"laws"}
    ELSE IF ipc = "finish" THEN {"judgments"}
    ELSE {}

\* C11: when create_vector_db has returned for a corpus, the corpus's index
\* holds exactly the chunks of the documents it was given (the directory
\* exists exactly if there is a chunk) and no chunk of the directory's
\* earlier content; and a run of build_database.main on the source files of
\* the run before leaves every index with the number of chunks it had.
C11_RebuildSemantics ==
    /\ \A corpus \in JustBuilt :
          documents # <<>> =>
              /\ store[DirOf(corpus)] = split_documents(documents)
              /\ \A i \in 1..Len(store[DirOf(corpus)]) :
                    store[DirOf(corpus)][i] \in Range(documents)
              /\ \A i \in 1..Len(StaleChunks) :
                    StaleChunks[i] \notin Range(store[DirOf(corpus)])
              /\ DirOf(corpus) \in dirs <=> store[DirOf(corpus)] # <<>>
    /\ (ipc = "done" /\ runs >= 2) =>
          \A d \in AllDirs : Len(store[d]) = lastCounts[d]

\* C11 witness: the second run has ended, over an index of two chunks.
C11_Witness ==
    /\ ipc = "done"
    /\ runs = 2
    /\ Len(store[PERSIST_DIRECTORY_LAWS]) = 2
    /\ lastCounts[PERSIST_DIRECTORY_LAWS] = 2

\* C17 (as claimed): when build_database.main has run to its success
\* message and written both indices, the query interface started next finds
\* its index directory. Violated: it checks "db", build_database writes
\* "db_laws" and "db_judgments".
C17_QueryFindsIngestedIndex ==
    (/\ ipc = "done"
     /\ {PERSIST_DIRECTORY_LAWS, PERSIST_DIRECTORY_JUDGMENTS} \subseteq dirs
     /\ pc # "start")
        => "index_missing" \notin startupError

\* The queries of the current question the loop of
\* retrieve_docs_for_queries has passed, or has raised on.
QueriesPassed == SubSeq(queries, 1, IF LookupRaised THEN qi ELSE qi - 1)

\* C12: whatever was asked and answered before in the session, what is sent
\* for a question is a function of that question alone, the index and the
\* model's replies to it: a question starts from an empty state, each prompt
\* is a template filled with the question (and, for the final prompt, with
\* the context made from the chunks retrieved for it), the queries are the
\* lines of the model's expansion reply, the lookups are the non-blank ones
\* among them and every chunk comes from the index.
C12_QuestionsIndependent ==
    /\ CurStage = "Received" =>
          /\ prompt = NoPrompt
          /\ queries = <<>> /\ lookups = <<>> /\ all_docs = <<>>
          /\ context = <<>> /\ unique_docs = <<>> /\ outcome = NoOutcome
    /\ prompt \in
          {NoPrompt,
           [template |-> "query_expansion", context |-> <<>>,
            question |-> question],
           [template |-> "final_response",
            context |-> format_docs(DedupByContent(all_docs)),
            question |-> question]}
    /\ CurStage \in {"Retrieving", "Synthesizing"} => queries = SplitLines(reply)
    /\ lookups = NonBlankOnly(QueriesPassed)
    /\ \A i \in 1..Len(all_docs) : all_docs[i] \in Range(IndexDocs)

\* C12 witness: the app has stored the exchange on an earlier, different
\* question, and the final prompt of the present question has been sent
\* after lookups that returned chunks.
C12_Witness ==
    /\ frontend = "app"
    /\ Len(stages) = 2
    /\ Len(messages) = 3
    /\ messages[1].content[2] # question
    /\ Retrieved
    /\ lookups # <<>>
    /\ all_docs # <<>>

\* The calls the trace holds for a template of the generative model.
LlmCallsOf(template) ==
    {i \in 1..Len(trace) : trace[i] = [kind |-> "llm", of |-> template]}

\* C13: for a completed question the calls were, in this order, one model
\* call for the expansion, the index lookups, one model call for the
\* synthesis, and the caller got the text of the synthesis reply as it
\* came; no question ever has a second call for either template.
C13_ExactlyOnceModelCalls ==
    /\ Cardinality(LlmCallsOf("query_expansion")) <= 1
    /\ Cardinality(LlmCallsOf("final_response")) <= 1
    /\ CurStage = "Completed" =>
          /\ trace = <<[kind |-> "llm", of |-> "query_expansion"]>>
                     \o [i \in 1..Len(lookups) |-> [kind |-> "lookup", of |-> "index"]]
                     \o <<[kind |-> "llm", of |-> "final_response"]>>
          /\ outcome = [kind |-> "answer", text |-> reply]
          /\ frontend = "app" =>
                messages[Len(messages)] =
                    [role |-> "assistant", content |-> <<"", reply>>]

\* C13 witness: a question with two lookups is completed with a reply that
\* is not the fallback sentence.
C13_Witness ==
    /\ CurStage = "Completed"
    /\ Len(lookups) = 2
    /\ reply # FALLBACK_SENTENCE
    /\ outcome.kind = "answer"

\* ---- the context block read back, piece by piece
HeaderOpen == "\n--- Quelle: "
HeaderClose == " ---\n"
Separator == "\n...\n"
\* The places of a context where a header begins.
HeaderPos(c) == {i \in 1..Len(c) : c[i] = HeaderOpen}
\* The last place of the group that begins with the header at h.
GroupEnd(c, h) ==
    IF \E j \in HeaderPos(c) : j > h
    THEN (CHOOSE j \in HeaderPos(c) : j > h /\ \A k \in HeaderPos(c) : k > h => j <= k) - 1
    ELSE Len(c)
\* The source names of the headers, in the order of the context.
RECURSIVE HeadersFrom(_, _)
HeadersFrom(c, i) ==
    IF i > Len(c) THEN <<>>
    ELSE (IF c[i] = HeaderOpen THEN <<c[i + 1]>> ELSE <<>>) \o HeadersFrom(c, i + 1)
Headers(c) == HeadersFrom(c, 1)
\* The texts under the header at h, in the order of the context.
GroupTextsAt(c, h) == [k \in 1..((GroupEnd(c, h) - h - 1) \div 2) |-> c[h + 1 + 2 * k]]
\* The texts under the header of a source.
GroupTexts(c, src) ==
    IF \E h \in HeaderPos(c) : c[h + 1] = src
    THEN GroupTextsAt(c, CHOOSE h \in HeaderPos(c) : c[h + 1] = src)
    ELSE <<>>
\* The source a chunk is to be cited with.
CitedSource(d) ==
    IF \E p \in d.metadata : p[1] = "source"
    THEN (CHOOSE p \in d.metadata : p[1] = "source")[2]
    ELSE "Unbekannt"
\* The texts of the chunks of a source, in the order of the list.
InputTexts(docs, src) ==
    LET sel == SelectSeq(docs, LAMBDA d : CitedSource(d) = src)
    IN [i \in 1..Len(sel) |-> sel[i].page_content]
\* String order of the source names that occur.
SourceBefore(a, b) ==
    <<a, b>> \in {<<"A.pdf", "B.pdf">>, <<"A.pdf", "Unbekannt">>, <<"B.pdf", "Unbekannt">>}
\* The orderings of a list.
Orderings(docs) ==
    {[i \in 1..Len(docs) |-> docs[p[i]]] :
        p \in {q \in [1..Len(docs) -> 1..Len(docs)] :
                  \A i, j \in 1..Len(docs) : i # j => q[i] # q[j]}}

\* C14: the context format_docs builds has one header for each source that
\* occurs among the chunks and no other, the headers stand in ascending
\* string order, each header is followed by the texts of its group with the
\* separator between two of them and nothing else, each chunk's text stands
\* at exactly one place, which is under the header of the chunk's own
\* source, and a chunk without "source" metadata is under "Unbekannt".
C14_ContextBlockStructure ==
    pc = "formatted" =>
        LET c == context
            docs == unique_docs
        IN /\ {c[h + 1] : h \in HeaderPos(c)} =
                  {CitedSource(docs[i]) : i \in 1..Len(docs)}
           /\ \A h, g \in HeaderPos(c) :
                  h < g => SourceBefore(c[h + 1], c[g + 1])
           /\ \A h \in HeaderPos(c) :
                  /\ c[h + 2] = HeaderClose
                  /\ GroupEnd(c, h) >= h + 3
                  /\ \A k \in (h + 3)..GroupEnd(c, h) :
                        IF (k - h) % 2 = 1
                        THEN c[k] \in {docs[i].page_content : i \in 1..Len(docs)}
                        ELSE c[k] = Separator
                  /\ (GroupEnd(c, h) - h) % 2 = 1
           /\ \A i \in 1..Len(docs) :
                  /\ Cardinality({k \in 1..Len(c) : c[k] = docs[i].page_content}) = 1
                  /\ \E k \in 1..Len(GroupTexts(c, CitedSource(docs[i]))) :
                        GroupTexts(c, CitedSource(docs[i]))[k] = docs[i].page_content
           /\ docs = <<>> <=> c = <<>>
           /\ c # <<>> => c[1] = HeaderOpen

\* C14 witness: three chunks, two of one source and one without source
\* metadata, have been formatted.
C14_Witness ==
    /\ pc = "formatted"
    /\ Len(unique_docs) = 3
    /\ Headers(context) = <<"A.pdf", "Unbekannt">>
    /\ Len(GroupTexts(context, "A.pdf")) = 2
    /\ unique_docs[1].metadata = {<<"case_number", "N/A">>}

\* C15 (as claimed): format_docs gives the same context for every ordering
\* of the chunks. Violated: two chunks of one source come out in the order
\* in which they came in.
C15_OrderIndependent ==
    pc = "formatted" =>
        \A other \in Orderings(unique_docs) : format_docs(other) = context

\* C15 (amended): for every ordering of the chunks format_docs gives the
\* same headers in the same order and under each header the same set of
\* texts; the texts of one group stand in the order of the input, so two
\* orderings give the same context exactly if they agree on the order of
\* the chunks of each source.
C15_OrderIndependentUpToGroupOrder ==
    pc = "formatted" =>
        \A other \in Orderings(unique_docs) :
            LET c == format_docs(other)
                srcs == {CitedSource(unique_docs[i]) : i \in 1..Len(unique_docs)}
            IN /\ Headers(c) = Headers(context)
               /\ \A s \in srcs :
                     /\ Range(GroupTexts(c, s)) = Range(GroupTexts(context, s))
                     /\ GroupTexts(c, s) = InputTexts(other, s)
               /\ c = context <=>
                     \A s \in srcs : InputTexts(other, s) = InputTexts(unique_docs, s)

\* C15 witness: two chunks of source A.pdf and one of B.pdf, B.pdf's first
\* in the list, have been formatted.
C15_Witness ==
    /\ pc = "formatted"
    /\ Len(unique_docs) = 3
    /\ CitedSource(unique_docs[1]) = "B.pdf"
    /\ Headers(context) = <<"A.pdf", "B.pdf">>
    /\ GroupTexts(context, "A.pdf") = <<"t2", "t1">>

\* C18 (as claimed): a link is skipped as present only if its file was
\* downloaded completely, a file whose download failed or was cut is not
\* skipped but attempted again, and at the summary of a run the two counts
\* add up to the number of links. Violated: a file cut while it was written
\* exists, so the next run skips it and counts it as a success.
C18_Resumable ==
    /\ last.kind = "skipped" =>
          /\ disk[last.file] = "complete"
          /\ last.file \notin broken
    /\ dpc = "done" => success_count + fail_count = Len(LinkFile)

====
